---- MODULE Spec2Model ----
(***************************************************************************)
(* Flight-Deal-Finder: the orchestration workflow of main.py together with *)
(* the components it drives (DataManager, FlightSearch, find_cheapest_     *)
(* flight, NotificationManager).  Every remote service is an opaque        *)
(* collaborator: its answer to a request is a nondeterministic choice.     *)
(*                                                                         *)
(* Prices are held in hundredths of a pound (float("45.10") is 4510).      *)
(***************************************************************************)
EXTENDS Integers, Sequences, FiniteSets, TLC

VARIABLES
    pc,          \* position of main()
    env,         \* the environment variables that are set to a non-empty value
    sheet,       \* the remote "prices" table as it was when the run started
    remote,      \* the remote "prices" table now
    users,       \* the remote "users" table
    sheet_data,  \* main's local list of destination rows
    customers,   \* main's local `users`, the customer rows it fetched
    idx,         \* 1-based position of the loop main() is in
    flight,      \* main's local `flight`
    message,     \* main's local `message`, a sequence of pieces of text
    calls,       \* every network request issued so far, in order
    evals,       \* per destination evaluated: the search result, the value the
                 \* conditional read, the branch taken, the addresses mailed
    error,       \* the exception that ended main(), "" while there is none
    data,        \* argument of find_cheapest_flight
    result,      \* outcome of find_cheapest_flight
    lookup,      \* get_destination_code run on its own: the city asked for and
                 \* the answer of the lookup service
    resolved,    \* outcome of that get_destination_code call
    email_list,  \* argument of NotificationManager.send_emails
    epc,         \* position of send_emails
    eidx,        \* 1-based position of send_emails' loop
    attempts,    \* every EmailService.send_email call so far, in order
    smtp,        \* every SMTP command issued so far, in order
    eerror       \* the exception that left send_emails, "" while there is none

mainVars ==
    <<pc, env, sheet, remote, users, sheet_data, customers, idx, flight,
      message, calls, evals, error>>
fcVars == <<data, result, lookup, resolved>>
mailVars == <<email_list, epc, eidx, attempts, smtp, eerror>>
vars == <<mainVars, fcVars, mailVars>>

----------------------------------------------------------------------------
(* Bounds *)
MaxDest == 2        \* rows of the prices table
MaxMissing == 1     \* environment variables left unset
MaxOffers == 3      \* offers in one result handed to find_cheapest_flight
MaxSegments == 2    \* segments of an outbound itinerary
MaxRecipients == 3  \* addresses handed to send_emails
MaxUsers == 2       \* rows of the users table
MaxSearchOffers == 1  \* offers in one search result of a workflow run

----------------------------------------------------------------------------
(* Python values *)

None == [type |-> "NoneType"]
\* a decoded JSON object: the keys it has and the list under "data"
Dict(keys, lst) == [type |-> "dict", keys |-> keys, data |-> lst]
Float(n) == [t |-> "float", v |-> n]
Int_(n) == [t |-> "int", v |-> n]
Str(s) == [t |-> "str", v |-> s]

\* bool(v)
Truthy(v) ==
    CASE v.type = "NoneType" -> FALSE
      [] v.type = "dict" -> v.keys # {}
      [] OTHER -> TRUE

\* whether v.<name> exists: a dict has keys, not attributes
HasAttr(v, name) ==
    /\ v.type = "FlightData"
    /\ name \in {"price", "origin_airport", "destination_airport",
                 "out_date", "return_date", "stops"}

----------------------------------------------------------------------------
(* flight_data.py *)

DigitChars == {"0", "1", "2", "3", "4", "5", "6", "7", "8", "9"}
DigitVal(c) ==
    CASE c = "0" -> 0 [] c = "1" -> 1 [] c = "2" -> 2 [] c = "3" -> 3
      [] c = "4" -> 4 [] c = "5" -> 5 [] c = "6" -> 6 [] c = "7" -> 7
      [] c = "8" -> 8 [] c = "9" -> 9

RECURSIVE DigitsValue(_)
DigitsValue(s) ==
    IF s = <<>> THEN 0
    ELSE 10 * DigitsValue(SubSeq(s, 1, Len(s) - 1)) + DigitVal(s[Len(s)])

\* float(s) of a decimal string (a sequence of characters), in hundredths
float(s) ==
    LET dots == {i \in 1..Len(s) : s[i] = "."}
        dot == IF dots = {} THEN Len(s) + 1 ELSE CHOOSE i \in dots : TRUE
        whole == SubSeq(s, 1, dot - 1)
        frac == SubSeq(s, dot + 1, Len(s))
        frac2 == IF Len(frac) = 0 THEN <<"0", "0">>
                 ELSE IF Len(frac) = 1 THEN frac \o <<"0">>
                 ELSE SubSeq(frac, 1, 2)
    IN  100 * DigitsValue(whole) + DigitsValue(frac2)

\* str(n) of an int n >= 0, a sequence of characters
DigitChar(d) == CHOOSE c \in DigitChars : DigitVal(c) = d
RECURSIVE str_int(_)
str_int(n) ==
    IF n < 10 THEN << DigitChar(n) >>
    ELSE Append(str_int(n \div 10), DigitChar(n % 10))

\* str(x) of a float x >= 0 given in hundredths: "45.0", "75.5", "75.25"
str_float(n) ==
    LET frac == n % 100
    IN  str_int(n \div 100) \o <<".">> \o
        (IF frac % 10 = 0 THEN << DigitChar(frac \div 10) >>
         ELSE << DigitChar(frac \div 10), DigitChar(frac % 10) >>)

\* format(v, "") as an f-string field does it
format(v) ==
    CASE v.t = "float" -> str_float(v.v)
      [] v.t = "int" -> str_int(v.v)
      [] v.t = "str" -> << v.v >>

\* at.split("T")[0] of a timestamp <<date, "T", time>>
DatePart(at) == at[1]

FlightData(price, origin_airport, destination_airport, out_date, return_date, stops) ==
    [type |-> "FlightData", price |-> price, origin_airport |-> origin_airport,
     destination_airport |-> destination_airport, out_date |-> out_date,
     return_date |-> return_date, stops |-> stops]

from_amadeus_data_first_arrival(flight_json) ==
    LET segments == flight_json.itineraries[1].segments
        nr_stops == Len(segments) - 1
        origin == segments[1].departure.iataCode
        destination == segments[1].arrival.iataCode
        out_date == DatePart(segments[1].departure.at)
        return_date == DatePart(flight_json.itineraries[2].segments[1].departure.at)
        price == float(flight_json.price.grandTotal)
    IN  FlightData(Float(price), origin, destination, out_date, return_date,
                   Int_(nr_stops))
from_amadeus_data(flight_json) ==
    LET segments == flight_json.itineraries[1].segments
        nr_stops == Len(segments) - 1
        origin == segments[1].departure.iataCode
        destination == segments[nr_stops + 1].arrival.iataCode
        out_date == DatePart(segments[1].departure.at)
        return_date == DatePart(flight_json.itineraries[2].segments[1].departure.at)
        price == float(flight_json.price.grandTotal)
    IN  FlightData(Float(price), origin, destination, out_date, return_date,
                   Int_(nr_stops))

NAFlight ==
    FlightData(Str("N/A"), "N/A", "N/A", "N/A", "N/A", Str("N/A"))

\* `data is None or not data.get("data")`
NoFlightDataNoneOnly(d) ==
    d.type = "NoneType"
NoFlightData(d) ==
    \/ d.type = "NoneType"
    \/ "data" \notin d.keys
    \/ d.data = <<>>

\* `current_flight.price < cheapest_flight.price`
IsCheaperOrEqual(current_flight, cheapest_flight) ==
    current_flight.price.v <= cheapest_flight.price.v
IsCheaper(current_flight, cheapest_flight) ==
    current_flight.price.v < cheapest_flight.price.v

\* the loop `for flight_json in data["data"]`, from position i on
RECURSIVE CheapestScan(_, _, _)
CheapestScan(offers, i, cheapest_flight) ==
    IF i > Len(offers) THEN cheapest_flight
    ELSE LET current_flight == from_amadeus_data(offers[i])
         IN  CheapestScan(offers, i + 1,
                 IF IsCheaper(current_flight, cheapest_flight)
                 THEN current_flight ELSE cheapest_flight)

Return(v) == [exc |-> "", value |-> v]
Raise(e) == [exc |-> e, value |-> None]

find_cheapest_flight(d) ==
    IF NoFlightData(d) THEN Return(NAFlight)
    ELSE IF d.type = "NoneType" THEN Raise("TypeError")     \* None["data"]
    ELSE IF "data" \notin d.keys THEN Raise("KeyError")     \* data["data"]
    ELSE IF d.data = <<>> THEN Raise("IndexError")          \* data["data"][0]
    ELSE Return(CheapestScan(d.data, 1, from_amadeus_data(d.data[1])))

----------------------------------------------------------------------------
(* The search results find_cheapest_flight and main() are run on *)

GrandTotals ==
    { <<"4", "5">>, <<"4", "5", ".", "0", "0">>, <<"6", "0", ".", "0", "0">>,
      <<"7", "5", ".", "5">>, <<"1", "0", "0", ".", "0", "0">> }

Hubs == <<"AMS", "FRA", "MAD", "ZRH">>
Hub(k) == Hubs[((k - 1) % Len(Hubs)) + 1]

Segment(dep, arr, date) ==
    [departure |-> [iataCode |-> dep, at |-> <<date, "T", "10:00:00">>],
     arrival |-> [iataCode |-> arr]]

\* a round-trip offer LHR -> CDG whose outbound itinerary has n segments
Offer(total, n) ==
    [itineraries |->
        << [segments |->
               [k \in 1..n |->
                   Segment(IF k = 1 THEN "LHR" ELSE Hub(k - 1),
                           IF k = n THEN "CDG" ELSE Hub(k),
                           "2026-11-01")]],
           [segments |-> << Segment("CDG", "LHR", "2027-04-28") >>] >>,
     price |-> [grandTotal |-> total]]

Offers == { Offer(t, n) : t \in GrandTotals, n \in 1..MaxSegments }

RECURSIVE SeqsUpTo(_, _)
SeqsUpTo(S, n) ==
    IF n = 0 THEN { <<>> }
    ELSE LET shorter == SeqsUpTo(S, n - 1)
         IN  shorter \cup { Append(q, x) : q \in shorter, x \in S }

\* what check_flights may hand back / find_cheapest_flight may be given
RawResults ==
    { None, Dict({}, <<>>), Dict({"meta"}, <<>>) }
    \cup { Dict({"meta", "data"}, l) : l \in SeqsUpTo(Offers, MaxOffers) }

----------------------------------------------------------------------------
(* find_cheapest_flight run on its own *)

InitMain0 ==
    /\ pc = "idle" /\ env = {} /\ sheet = <<>> /\ remote = <<>> /\ users = <<>>
    /\ sheet_data = <<>> /\ customers = <<>> /\ idx = 0 /\ flight = None /\ calls = <<>>
    /\ message = <<>> /\ evals = <<>> /\ error = ""

InitLookup0 ==
    /\ lookup = [city |-> "", resp |-> [outcome |-> "ok", body |-> None]]
    /\ resolved = [called |-> FALSE, exc |-> "", value |-> ""]

InitFc0 ==
    /\ data = None /\ result = [called |-> FALSE, exc |-> "", value |-> None]
    /\ InitLookup0

InitMail0 ==
    /\ email_list = <<>> /\ epc = "idle" /\ eidx = 0 /\ attempts = <<>>
    /\ smtp = <<>> /\ eerror = ""

InitCheapest ==
    /\ InitMain0 /\ InitMail0 /\ InitLookup0
    /\ data \in RawResults
    /\ result = [called |-> FALSE, exc |-> "", value |-> None]

CallFindCheapest ==
    /\ ~result.called
    /\ LET r == find_cheapest_flight(data)
       IN  result' = [called |-> TRUE, exc |-> r.exc, value |-> r.value]
    /\ UNCHANGED <<data, lookup, resolved, mainVars, mailVars>>

NextCheapest == CallFindCheapest

SpecCheapest == InitCheapest /\ [][NextCheapest]_vars

----------------------------------------------------------------------------
(* Configuration: the environment variables the constructors require *)

SheetyVars ==
    {"SHEETY_USERNAME", "SHEETY_PASSWORD", "SHEETY_PRICES_ENDPOINT",
     "SHEETY_USERS_ENDPOINT"}
AmadeusVars == {"AMADEUS_API_KEY", "AMADEUS_SECRET"}
NotifyVars ==
    {"EMAIL_PROVIDER_SMTP_ADDRESS", "MY_EMAIL", "MY_EMAIL_PASSWORD",
     "TWILIO_SID", "TWILIO_AUTH_TOKEN", "TWILIO_VIRTUAL_NUMBER",
     "TWILIO_VERIFIED_NUMBER", "TWILIO_WHATSAPP_NUMBER"}
EnvVars == SheetyVars \cup AmadeusVars \cup NotifyVars

Envs == { EnvVars \ m : m \in { x \in SUBSET EnvVars : Cardinality(x) <= MaxMissing } }

\* `not all([...])` over the values read with os.environ.get
all(names) == names \subseteq env

----------------------------------------------------------------------------
(* The remote tables and the answers of the remote services *)

ORIGIN_CITY_IATA == "LON"

Cities == <<"Paris", "Berlin", "Tokyo", "Sydney">>
City(i) == Cities[((i - 1) % Len(Cities)) + 1]
IataOf(city) ==
    CASE city = "Paris" -> "PAR" [] city = "Berlin" -> "BER"
      [] city = "Tokyo" -> "TYO" [] OTHER -> "SYD"

LowestPrices == {4500, 6000}

\* the users sheet
Addresses == <<"ana@x.org", "bob@x.org", "cy@x.org", "di@x.org">>
UserRow(i) ==
    [id |-> i + 1, firstName |-> "N", email |-> Addresses[((i - 1) % Len(Addresses)) + 1]]
UserTables == { [i \in 1..n |-> UserRow(i)] : n \in 0..MaxUsers }

\* row i of the prices sheet; Sheety numbers rows from 2 (row 1 is the header)
RowsAt(i) ==
    { [id |-> i + 1, city |-> City(i), iataCode |-> c, lowestPrice |-> p] :
        c \in {"", IataOf(City(i))}, p \in LowestPrices }

Sheets ==
    UNION { { s \in [1..n -> UNION { RowsAt(i) : i \in 1..n }] :
                \A i \in 1..n : s[i] \in RowsAt(i) } : n \in 0..MaxDest }

\* how a request ends: answered 2xx, answered 4xx/5xx, or not answered
HttpOutcomes == {"ok", "HTTPError", "ConnectionError"}

\* requests.get/put/post followed by response.raise_for_status():
\* the exception raised, "" when there is none
RequestExceptionConnOnly(outcome) ==
    IF outcome = "ConnectionError" THEN outcome ELSE ""
RequestException(outcome) ==
    IF outcome = "ok" THEN "" ELSE outcome

Response(outcome, body) == [outcome |-> outcome, body |-> body]

\* one entry of `calls`
Call(verb, what, id, a, b, ok) ==
    [verb |-> verb, what |-> what, id |-> id, a |-> a, b |-> b, ok |-> ok]

\* answers of the city lookup for `city`
Location(keys, code) == [keys |-> keys, iataCode |-> code]
Locations(city) ==
    { Location({"name"}, ""),
      Location({"name", "iataCode"}, IataOf(city)),
      Location({"name", "iataCode"}, "XXX") }
\* the query asks for "max": "2" results
MaxResults == 2
LookupBodies(city) ==
    { Dict({}, <<>>), Dict({"meta"}, <<>>) }
    \cup { Dict({"meta", "data"}, l) : l \in SeqsUpTo(Locations(city), MaxResults) }
LookupResponses(city) ==
    { Response(o, None) : o \in HttpOutcomes \ {"ok"} }
    \cup { Response("ok", b) : b \in LookupBodies(city) }

\* answers of the offer search; check_flights asks for nonStop = "true", so
\* the outbound itinerary of every offer has one segment
DirectOffers == { Offer(t, 1) : t \in GrandTotals }
SearchBodies ==
    { Dict({}, <<>>) }
    \cup { Dict({"meta", "data"}, l) : l \in SeqsUpTo(DirectOffers, MaxSearchOffers) }
SearchResponses ==
    { Response(o, None) : o \in HttpOutcomes \ {"ok"} }
    \cup { Response("ok", b) : b \in SearchBodies }

----------------------------------------------------------------------------
(* flight_search.py *)

\* get_destination_code without its `except KeyError`
get_destination_code_no_keyerror(resp) ==
    IF RequestException(resp.outcome) # "" THEN Return("N/A")
    ELSE LET d == resp.body
         IN  IF ~Truthy(d) THEN Return("N/A")
             ELSE IF "data" \notin d.keys THEN Raise("KeyError")
             ELSE IF d.data = <<>> THEN Return("N/A")
             ELSE IF "iataCode" \notin d.data[1].keys THEN Raise("KeyError")
             ELSE Return(d.data[1].iataCode)

get_destination_code(resp) ==
    IF RequestException(resp.outcome) # "" THEN Return("N/A")
    ELSE LET d == resp.body
         IN  IF ~Truthy(d) THEN Return("N/A")
             ELSE IF "data" \notin d.keys THEN Return("N/A")      \* KeyError, caught
             ELSE IF d.data = <<>> THEN Return("N/A")
             ELSE IF "iataCode" \notin d.data[1].keys
                  THEN Return("N/A")                                \* KeyError, caught
             ELSE Return(d.data[1].iataCode)

check_flights(resp) ==
    IF RequestException(resp.outcome) # "" THEN Return(None)
    ELSE Return(resp.body)

\* get_destination_code run on its own
InitLookup ==
    /\ InitMain0 /\ InitMail0
    /\ data = None /\ result = [called |-> FALSE, exc |-> "", value |-> None]
    /\ lookup \in UNION { { [city |-> City(i), resp |-> r] :
                                r \in LookupResponses(City(i)) } :
                            i \in 1..Len(Cities) }
    /\ resolved = [called |-> FALSE, exc |-> "", value |-> ""]

CallGetDestinationCode ==
    /\ ~resolved.called
    /\ LET r == get_destination_code(lookup.resp)
       IN  resolved' = [called |-> TRUE, exc |-> r.exc, value |-> r.value]
    /\ UNCHANGED <<data, result, lookup, mainVars, mailVars>>

NextLookup == CallGetDestinationCode

SpecLookup == InitLookup /\ [][NextLookup]_vars

----------------------------------------------------------------------------
(* data_manager.py *)

\* the row id update_destination_codes puts in the URL of its PUT
update_url_by_position(city) == city.id - 1
update_url(city) == city.id

\* the effect of a PUT that sets only iataCode on the row with this id
PutIataCodeEveryRow(table, id, code) ==
    [i \in DOMAIN table |-> [table[i] EXCEPT !.iataCode = code]]
PutIataCode(table, id, code) ==
    [i \in DOMAIN table |->
        IF table[i].id = id THEN [table[i] EXCEPT !.iataCode = code]
        ELSE table[i]]

----------------------------------------------------------------------------
(* main.py *)

\* an uncaught exception leaves main()
Crash(e) == pc' = "crashed" /\ error' = e

\* lines 53-75: the branch the conditional takes on the value fl
Branch(fl, lowestPrice) ==
    IF ~Truthy(fl) THEN "no_flight"
    ELSE IF ~HasAttr(fl, "price") THEN "AttributeError"     \* fl.price
    ELSE IF fl.price.t = "str" THEN "TypeError"             \* "N/A" < number
    ELSE IF fl.price.v < lowestPrice THEN "notify"
    ELSE "no_deal"

Init ==
    /\ InitFc0 /\ InitMail0
    /\ pc = "DataManager"
    /\ env \in Envs
    /\ sheet \in Sheets
    /\ remote = sheet
    /\ users \in UserTables
    /\ sheet_data = <<>> /\ customers = <<>> /\ idx = 0 /\ flight = None
    /\ message = <<>> /\ calls = <<>> /\ evals = <<>> /\ error = ""

\* DataManager.__init__ (main.py line 23)
DataManager_init ==
    /\ pc = "DataManager"
    /\ IF ~all(SheetyVars) THEN Crash("ValueError")
       ELSE pc' = "FlightSearch" /\ UNCHANGED error
    /\ UNCHANGED <<env, sheet, remote, users, sheet_data, customers, idx, flight, calls, evals>>
    /\ UNCHANGED <<message, fcVars, mailVars>>

\* FlightSearch.__init__ with the token exchange done first
FlightSearch_init_token_first ==
    /\ pc = "FlightSearch"
    /\ \E outcome \in HttpOutcomes :
          /\ calls' = Append(calls, Call("POST", "token", 0, "", "", outcome = "ok"))
          /\ IF RequestException(outcome) # "" THEN Crash(RequestException(outcome))
             ELSE IF ~all(AmadeusVars) THEN Crash("ValueError")
             ELSE pc' = "NotificationManager" /\ UNCHANGED error
    /\ UNCHANGED <<env, sheet, remote, users, sheet_data, customers, idx, flight, evals>>
    /\ UNCHANGED <<message, fcVars, mailVars>>

\* FlightSearch.__init__ and _get_new_token (main.py line 24)
FlightSearch_init ==
    /\ pc = "FlightSearch"
    /\ IF ~all(AmadeusVars) THEN Crash("ValueError") /\ UNCHANGED calls
       ELSE \E outcome \in HttpOutcomes :
          /\ calls' = Append(calls, Call("POST", "token", 0, "", "", outcome = "ok"))
          /\ IF RequestException(outcome) # "" THEN Crash(RequestException(outcome))
             ELSE pc' = "NotificationManager" /\ UNCHANGED error
    /\ UNCHANGED <<env, sheet, remote, users, sheet_data, customers, idx, flight, evals>>
    /\ UNCHANGED <<message, fcVars, mailVars>>

\* NotificationManager.__init__ (main.py line 25); building the e-mail and
\* Twilio service objects sends nothing
NotificationManager_init ==
    /\ pc = "NotificationManager"
    /\ IF ~all(NotifyVars) THEN Crash("ValueError")
       ELSE pc' = "get_destination_data" /\ UNCHANGED error
    /\ UNCHANGED <<env, sheet, remote, users, sheet_data, customers, idx, flight, calls, evals>>
    /\ UNCHANGED <<message, fcVars, mailVars>>

\* DataManager.get_destination_data (main.py line 28)
get_destination_data ==
    /\ pc = "get_destination_data"
    /\ \E outcome \in HttpOutcomes :
          /\ calls' = Append(calls, Call("GET", "prices", 0, "", "", outcome = "ok"))
          /\ IF RequestException(outcome) # ""
             THEN Crash(RequestException(outcome)) /\ UNCHANGED sheet_data
             ELSE /\ sheet_data' = remote
                  /\ pc' = "check_first_row" /\ UNCHANGED error
    /\ UNCHANGED <<env, sheet, remote, users, customers, idx, flight, evals>>
    /\ UNCHANGED <<message, fcVars, mailVars>>

CheckFirstRowSkipsEmpty ==
    /\ pc = "check_first_row"
    /\ IF sheet_data = <<>> THEN pc' = "done" /\ UNCHANGED <<idx, error>>
       ELSE /\ pc' = IF sheet_data[1].iataCode = "" THEN "resolve" ELSE "check_flights"
            /\ idx' = 1 /\ UNCHANGED error
    /\ UNCHANGED <<env, sheet, remote, users, sheet_data, customers, flight, calls, evals>>
    /\ UNCHANGED <<message, fcVars, mailVars>>
\* main.py line 31: `if sheet_data[0]["iataCode"] == "":`
CheckFirstRow ==
    /\ pc = "check_first_row"
    /\ IF sheet_data = <<>> THEN Crash("IndexError") /\ UNCHANGED idx
       ELSE /\ pc' = IF sheet_data[1].iataCode = "" THEN "resolve" ELSE "check_flights"
            /\ idx' = 1 /\ UNCHANGED error
    /\ UNCHANGED <<env, sheet, remote, users, sheet_data, customers, flight, calls, evals>>
    /\ UNCHANGED <<message, fcVars, mailVars>>

\* main.py lines 33-35: one turn of `for row in sheet_data`
ResolveCode ==
    /\ pc = "resolve"
    /\ \E resp \in LookupResponses(sheet_data[idx].city) :
          LET r == get_destination_code(resp)
          IN  /\ calls' = Append(calls, Call("GET", "cities", 0, sheet_data[idx].city,
                                             "", resp.outcome = "ok"))
              /\ IF r.exc # "" THEN Crash(r.exc) /\ UNCHANGED <<sheet_data, idx>>
                 ELSE /\ sheet_data' = [sheet_data EXCEPT ![idx].iataCode = r.value]
                      /\ IF idx < Len(sheet_data)
                         THEN idx' = idx + 1 /\ UNCHANGED pc
                         ELSE idx' = 1 /\ pc' = "update"
                      /\ UNCHANGED error
    /\ UNCHANGED <<env, sheet, remote, users, customers, flight, evals>>
    /\ UNCHANGED <<message, fcVars, mailVars>>

\* DataManager.update_destination_codes (main.py line 36): one turn of
\* `for city in self.destination_data`, which is main's sheet_data
UpdateCode ==
    /\ pc = "update"
    /\ \E outcome \in HttpOutcomes :
          LET city == sheet_data[idx]
          IN  /\ calls' = Append(calls, Call("PUT", "prices", update_url(city),
                                             city.iataCode, "", outcome = "ok"))
              /\ IF RequestException(outcome) # ""
                 THEN Crash(RequestException(outcome)) /\ UNCHANGED <<remote, idx>>
                 ELSE /\ remote' = PutIataCode(remote, update_url(city), city.iataCode)
                      /\ IF idx < Len(sheet_data)
                         THEN idx' = idx + 1 /\ UNCHANGED pc
                         ELSE idx' = 1 /\ pc' = "check_flights"
                      /\ UNCHANGED error
    /\ UNCHANGED <<env, sheet, users, sheet_data, customers, flight, evals>>
    /\ UNCHANGED <<message, fcVars, mailVars>>

\* main.py lines 45-50: `flight = flight_search.check_flights(...)`
CheckFlights ==
    /\ pc = "check_flights"
    /\ \E resp \in SearchResponses :
          LET r == check_flights(resp)
          IN  /\ calls' = Append(calls, Call("GET", "flight-offers", 0, ORIGIN_CITY_IATA,
                                             sheet_data[idx].iataCode, resp.outcome = "ok"))
              /\ IF r.exc # "" THEN Crash(r.exc) /\ UNCHANGED flight
                 ELSE flight' = r.value /\ pc' = "evaluate" /\ UNCHANGED error
    /\ UNCHANGED <<env, sheet, remote, users, sheet_data, customers, idx, evals>>
    /\ UNCHANGED <<message, fcVars, mailVars>>

\* main.py lines 53-75: the conditional on `flight`, then the next turn of
\* `for destination in sheet_data` or the end of main()
EvaluateFlight ==
    /\ pc = "evaluate"
    /\ LET b == Branch(flight, sheet_data[idx].lowestPrice)
       IN  /\ evals' = Append(evals, [raw |-> flight, compared |-> flight,
                                    branch |-> b, sent |-> <<>>])
           /\ CASE b \in {"AttributeError", "TypeError"} ->
                       Crash(b) /\ UNCHANGED idx
                [] b = "notify" ->
                       pc' = "get_customer_emails" /\ UNCHANGED <<idx, error>>
                [] OTHER ->
                       /\ IF idx < Len(sheet_data)
                          THEN idx' = idx + 1 /\ pc' = "check_flights"
                          ELSE pc' = "done" /\ UNCHANGED idx
                       /\ UNCHANGED error
    /\ UNCHANGED <<env, sheet, remote, users, sheet_data, customers, flight, calls>>
    /\ UNCHANGED <<message, fcVars, mailVars>>

Next ==
    \/ DataManager_init
    \/ FlightSearch_init
    \/ NotificationManager_init
    \/ get_destination_data
    \/ CheckFirstRow
    \/ ResolveCode
    \/ UpdateCode
    \/ CheckFlights
    \/ EvaluateFlight

Spec == Init /\ [][Next]_vars

----------------------------------------------------------------------------
(* notification_manager.py *)

\* the SMTP conversation of one send_email call, in order
SmtpStages == <<"connect", "starttls", "login", "sendmail">>
StageNo(stage) == CHOOSE k \in 1..Len(SmtpStages) : SmtpStages[k] = stage

\* how one send_email call goes: no failure, or the stage that fails and the
\* exception it raises (smtplib.SMTPException, or another Exception such as
\* the OSError of a refused connection)
NoFailure == [stage |-> "none", exc |-> ""]
SendFailures ==
    { NoFailure }
    \cup { [stage |-> SmtpStages[k], exc |-> e] :
             k \in 1..Len(SmtpStages), e \in {"SMTPException", "OSError"} }

\* the except clauses of send_email: does the exception stay inside?
CaughtSmtpOnly(exc) == exc = "SMTPException"
Caught(exc) == exc \in {"SMTPException", "OSError"}

\* the commands send_email issues to the SMTP server when it goes as `failure`
SmtpCommandsNoTls(to_addrs, failure) ==
    LET last == IF failure.stage = "none" THEN Len(SmtpStages)
                ELSE StageNo(failure.stage)
        kept == SelectSeq([k \in 1..last |-> SmtpStages[k]],
                          LAMBDA c : c # "starttls")
        issued == [k \in 1..Len(kept) |->
                     [cmd |-> kept[k],
                      to |-> IF kept[k] = "sendmail" THEN to_addrs ELSE "",
                      ok |-> kept[k] # failure.stage]]
    IN  IF failure.stage = "connect" THEN issued
        ELSE Append(issued, [cmd |-> "quit", to |-> "", ok |-> TRUE])
SmtpCommands(to_addrs, failure) ==
    LET last == IF failure.stage = "none" THEN Len(SmtpStages)
                ELSE StageNo(failure.stage)
        issued == [k \in 1..last |->
                     [cmd |-> SmtpStages[k],
                      to |-> IF SmtpStages[k] = "sendmail" THEN to_addrs ELSE "",
                      ok |-> SmtpStages[k] # failure.stage]]
    IN  IF failure.stage = "connect" THEN issued
        ELSE Append(issued, [cmd |-> "quit", to |-> "", ok |-> TRUE])

\* EmailService.send_email: the exception that leaves it ("" for none) and
\* the SMTP commands it issued
send_email(to_addrs, failure) ==
    [exc |-> IF failure.exc # "" /\ ~Caught(failure.exc) THEN failure.exc ELSE "",
     cmds |-> SmtpCommands(to_addrs, failure)]

InitEmails ==
    /\ InitMain0 /\ InitFc0
    /\ email_list \in SeqsUpTo({ Addresses[k] : k \in 1..2 }, MaxRecipients)
    /\ epc = "called" /\ eidx = 1 /\ attempts = <<>> /\ smtp = <<>> /\ eerror = ""

\* NotificationManager.send_emails: line 167, then the loop is entered or skipped
EnterSendEmails ==
    /\ epc = "called"
    /\ epc' = IF email_list = <<>> THEN "returned" ELSE "sending"
    /\ UNCHANGED <<email_list, eidx, attempts, smtp, eerror, mainVars, fcVars>>

\* NotificationManager.send_emails: one turn of `for email in email_list`
SendEmail ==
    /\ epc = "sending"
    /\ \E failure \in SendFailures :
          LET r == send_email(email_list[eidx], failure)
          IN  /\ attempts' = Append(attempts, [to |-> email_list[eidx], failure |-> failure])
              /\ smtp' = smtp \o r.cmds
              /\ IF r.exc # "" THEN epc' = "raised" /\ eerror' = r.exc /\ UNCHANGED eidx
                 ELSE /\ UNCHANGED eerror
                      /\ IF eidx < Len(email_list)
                         THEN eidx' = eidx + 1 /\ UNCHANGED epc
                         ELSE epc' = "returned" /\ UNCHANGED eidx
    /\ UNCHANGED <<email_list, mainVars, fcVars>>

NextEmails == EnterSendEmails \/ SendEmail

SpecEmails == InitEmails /\ [][NextEmails]_vars

----------------------------------------------------------------------------
(* main.py lines 54-70, the notification path.  Spec never gets here: what  *)
(* check_flights hands back is None or a dict, and Branch sends neither to  *)
(* "notify".  SpecNotifyPath starts main() at line 53 of its only turn,     *)
(* holding a FlightData in `flight`.                                        *)

\* binding the positional arguments of a call to
\* send_emails(self, email_list, subject, body)
BindSendEmails(args) ==
    IF Len(args) < 3 THEN "TypeError" ELSE ""

\* DataManager.get_customer_emails (main.py lines 57-59)
GetCustomerEmails ==
    /\ pc = "get_customer_emails"
    /\ \E outcome \in HttpOutcomes :
          /\ calls' = Append(calls, Call("GET", "users", 0, "", "", outcome = "ok"))
          /\ IF RequestException(outcome) # ""
             THEN Crash(RequestException(outcome)) /\ UNCHANGED customers
             ELSE customers' = users /\ pc' = "compose_message" /\ UNCHANGED error
    /\ UNCHANGED <<env, sheet, remote, users, sheet_data, idx, flight, evals>>
    /\ UNCHANGED <<message, fcVars, mailVars>>

\* main.py line 62: the f-string, literal pieces whole and each field as the
\* characters format() gives
MessageHead(fl) ==
    <<"Preço baixo de voo! Apenas £">> \o format(fl.price)
    \o <<" para voar de ", fl.origin_airport, " para ", fl.destination_airport,
         ", de ", fl.out_date, " a ", fl.return_date, ".">>

\* main.py line 66: the text appended for a flight with stops
StopClause(fl) == <<"\nO voo tem ">> \o format(fl.stops) \o <<" escala(s).">>

\* main.py line 65
HasStopsOverOne(fl) == fl.stops.v > 1
HasStops(fl) == fl.stops.v > 0

\* main.py lines 62-66
ComposeMessage ==
    /\ pc = "compose_message"
    /\ message' = IF HasStops(flight)
                  THEN MessageHead(flight) \o StopClause(flight)
                  ELSE MessageHead(flight)
    /\ pc' = "send_emails"
    /\ UNCHANGED <<env, sheet, remote, users, sheet_data, customers, idx, flight,
                   calls, evals, error>>
    /\ UNCHANGED <<fcVars, mailVars>>

\* main.py line 69: `notification_manager.send_emails(emails, message)`
SendEmailsFromMain ==
    /\ pc = "send_emails"
    /\ LET emails == [k \in 1..Len(customers) |-> customers[k].email]
           e == BindSendEmails(<<emails, message>>)
       IN  IF e # "" THEN Crash(e)
           ELSE pc' = "mailing" /\ UNCHANGED error
    /\ UNCHANGED <<env, sheet, remote, users, sheet_data, customers, idx, flight,
                   calls, evals>>
    /\ UNCHANGED <<message, fcVars, mailVars>>

InitNotifyPath ==
    /\ InitFc0 /\ InitMail0
    /\ pc = "evaluate"
    /\ env = EnvVars
    /\ sheet \in { sh \in Sheets : Len(sh) = 1 /\ sh[1].iataCode # "" }
    /\ remote = sheet
    /\ users \in UserTables
    /\ sheet_data = sheet /\ customers = <<>> /\ idx = 1
    /\ flight \in { find_cheapest_flight(r).value : r \in RawResults }
    /\ message = <<>> /\ calls = <<>> /\ evals = <<>> /\ error = ""

NextNotifyPath ==
    EvaluateFlight \/ GetCustomerEmails \/ ComposeMessage \/ SendEmailsFromMain

SpecNotifyPath == InitNotifyPath /\ [][NextNotifyPath]_vars

----------------------------------------------------------------------------
(* Properties of the workflow, stated of Spec *)

Lookups == SelectSeq(calls, LAMBDA c : c.what = "cities")
Puts == SelectSeq(calls, LAMBDA c : c.verb = "PUT")
Searches == SelectSeq(calls, LAMBDA c : c.what = "flight-offers")
UserFetches == SelectSeq(calls, LAMBDA c : c.what = "users")

Ended == pc \in {"done", "crashed"}

\* the quote of a search result: find_cheapest_flight applied to it
QuoteOf(raw) == find_cheapest_flight(raw).value
Available(q) == q.price.t = "float"

\* destination i has been evaluated and main() has left its turn of the loop
Finished(i) == i < Len(evals) \/ (i = Len(evals) /\ (Ended \/ pc = "check_flights"))

\* C1: for every destination processed, the branch follows the quote: an
\* available quote below lowestPrice takes the notification path, an
\* available quote at or above it takes the no-deal branch, an unavailable
\* quote takes the no-flight branch and the run continues.
C1_BranchFollowsQuote ==
    \A i \in 1..Len(evals) :
        LET q == QuoteOf(evals[i].raw)
            lowestPrice == sheet_data[i].lowestPrice
        IN  /\ (Available(q) /\ q.price.v < lowestPrice) => evals[i].branch = "notify"
            /\ (Available(q) /\ q.price.v >= lowestPrice) => evals[i].branch = "no_deal"
            /\ ~Available(q) => (evals[i].branch = "no_flight" /\ error = "")

\* C2: whenever a destination's quote is strictly below its lowestPrice, the
\* customer list is fetched, exactly one e-mail send is attempted to every
\* customer of that fetch, in order, and the run goes on.
C2_CheaperQuoteMailsEveryCustomer ==
    \A i \in 1..Len(evals) :
        LET q == QuoteOf(evals[i].raw)
        IN  (Finished(i) /\ Available(q) /\ q.price.v < sheet_data[i].lowestPrice) =>
                /\ evals[i].branch = "notify"
                /\ \E k \in 1..Len(UserFetches) : UserFetches[k].ok
                /\ evals[i].sent = [k \in 1..Len(users) |-> users[k].email]
                /\ (i = Len(evals) => error = "")

\* C3: each destination read is searched exactly once, from the fixed origin
\* to its own IATA code, in list order, and the value the conditional reads is
\* the quote find_cheapest_flight makes of that search's result.
C3_SearchedOnceAndReduced ==
    /\ Len(Searches) <= Len(sheet_data)
    /\ \A k \in 1..Len(Searches) :
          /\ Searches[k].a = ORIGIN_CITY_IATA
          /\ Searches[k].b = sheet_data[k].iataCode
    /\ pc = "done" => Len(Searches) = Len(sheet_data)
    /\ \A i \in 1..Len(evals) : evals[i].compared = QuoteOf(evals[i].raw)

\* C7: a failed offer search does not abort the run: the search hands back
\* None, that destination takes the no-flight branch, and every later
\* destination is still searched and evaluated.
C7_SearchFailureDoesNotAbort ==
    \A i \in 1..Len(Searches) :
        ~Searches[i].ok =>
            /\ i <= Len(evals) =>
                  (evals[i].raw = None /\ evals[i].branch = "no_flight")
            /\ Ended =>
                  /\ Len(Searches) = Len(sheet_data)
                  /\ Len(evals) = Len(sheet_data)
                  /\ \A j \in (i + 1)..Len(evals) :
                        evals[j].branch \in {"notify", "no_deal", "no_flight"}


BackfillNeeded == sheet # <<>> /\ sheet[1].iataCode = ""
\* main() has left lines 31-36
BackfillOver == pc \in {"check_flights", "evaluate", "done"} \/ Searches # <<>>

\* C6: when the first row read has an empty IATA code, then once the backfill
\* step is over every row read has had its code looked up (by its city) and
\* has been written back exactly once, by a PUT addressed to its own id that
\* carries the looked-up code, whatever code the row had before.
C6_BackfillWritesEveryRowOnce ==
    (BackfillNeeded /\ BackfillOver) =>
        /\ Len(Lookups) = Len(sheet)
        /\ Len(Puts) = Len(sheet)
        /\ \A i \in 1..Len(sheet) :
              /\ Lookups[i].a = sheet[i].city
              /\ Puts[i].id = sheet[i].id
              /\ Puts[i].ok
              /\ Puts[i].a = sheet_data[i].iataCode
              /\ remote[i] = [sheet[i] EXCEPT !.iataCode = sheet_data[i].iataCode]

C6_Witness ==
    /\ BackfillNeeded /\ BackfillOver
    /\ Len(sheet) = 2 /\ sheet[2].iataCode # ""
    /\ Len(Puts) = 2 /\ Puts[2].id = sheet[2].id

FailedSheetCall(c) == c.what \in {"prices", "users"} /\ ~c.ok

\* C8: a failed spreadsheet request (the GET of the prices, a PUT of the
\* backfill, the GET of the users) is the last request of the run: main() has
\* ended with that transport error and issued nothing after it.
C8_SheetFailureEndsRun ==
    \A k \in 1..Len(calls) :
        FailedSheetCall(calls[k]) =>
            /\ k = Len(calls)
            /\ pc = "crashed"
            /\ error \in {"HTTPError", "ConnectionError"}

C8_Witness ==
    /\ pc = "crashed" /\ error = "HTTPError"
    /\ Len(Puts) = 2 /\ Puts[1].ok /\ ~Puts[2].ok
    /\ calls[Len(calls)] = Puts[2]

AtConstruction == pc \in {"DataManager", "FlightSearch", "NotificationManager"}
TransportErrors == {"HTTPError", "ConnectionError"}

\* C9 as stated: when any required configuration value is missing, no network
\* request is ever attempted and the run ends in the configuration error.
C9_MissingConfigNoNetworkCall ==
    env # EnvVars =>
        /\ calls = <<>>
        /\ AtConstruction \/ (pc = "crashed" /\ error = "ValueError")

\* C9 amended: when any required configuration value is missing, the run
\* never gets past construction.  A missing spreadsheet or flight-offer value
\* ends it in the configuration error with no network request attempted.
\* When only notifier values are missing, the one request attempted is the
\* token exchange of the flight-offer client, and the run ends in the
\* notifier's configuration error if that exchange succeeded, in its
\* transport error if not.
C9_MissingConfigFailsAtConstruction ==
    env # EnvVars =>
        /\ AtConstruction \/ pc = "crashed"
        /\ ~all(SheetyVars \cup AmadeusVars) =>
              (calls = <<>> /\ (pc = "crashed" => error = "ValueError"))
        /\ all(SheetyVars \cup AmadeusVars) =>
              /\ Len(calls) <= 1
              /\ \A k \in 1..Len(calls) : calls[k].what = "token"
              /\ pc = "crashed" =>
                    \/ error = "ValueError" /\ Len(calls) = 1 /\ calls[1].ok
                    \/ error \in TransportErrors /\ Len(calls) = 1 /\ ~calls[1].ok

C9_Witness ==
    /\ env # EnvVars /\ pc = "crashed" /\ error = "ValueError"
    /\ Len(calls) = 1 /\ calls[1].what = "token"

----------------------------------------------------------------------------
(* Properties of find_cheapest_flight, stated of SpecCheapest *)

PriceAt(offers, i) == float(offers[i].price.grandTotal)
\* the first position that holds the lowest price
FirstCheapest(offers) ==
    CHOOSE i \in 1..Len(offers) :
        /\ \A j \in 1..Len(offers) : PriceAt(offers, i) <= PriceAt(offers, j)
        /\ \A j \in 1..(i - 1) : PriceAt(offers, j) > PriceAt(offers, i)

HasOffers(d) == d.type = "dict" /\ "data" \in d.keys /\ d.data # <<>>

\* C4: on a non-empty offer list find_cheapest_flight returns the quote of an
\* offer of lowest price, and of the earliest-listed one when several offers
\* share that price.
C4_CheapestEarliest ==
    (result.called /\ HasOffers(data)) =>
        /\ result.exc = ""
        /\ result.value = from_amadeus_data(data.data[FirstCheapest(data.data)])
        /\ \A j \in 1..Len(data.data) : result.value.price.v <= PriceAt(data.data, j)

C4_Witness ==
    /\ result.called /\ HasOffers(data) /\ Len(data.data) = 3
    /\ PriceAt(data.data, 1) > PriceAt(data.data, 2)
    /\ PriceAt(data.data, 2) = PriceAt(data.data, 3)
    /\ from_amadeus_data(data.data[2]) # from_amadeus_data(data.data[3])
    /\ result.value = from_amadeus_data(data.data[2])

\* C5: on an absent result (None) or one without offers (no list, or an empty
\* list) find_cheapest_flight does not raise and returns the "N/A" quote,
\* whose price is not a number.
C5_NoOffersGivesSentinel ==
    (result.called /\ ~HasOffers(data)) =>
        /\ result.exc = ""
        /\ result.value.type = "FlightData"
        /\ result.value.price = Str("N/A")
        /\ result.value.stops = Str("N/A")
        /\ result.value.destination_airport = "N/A"

C5_Witness ==
    /\ result.called /\ data = Dict({"meta", "data"}, <<>>)
    /\ result.exc = "" /\ result.value.price.t = "str"

----------------------------------------------------------------------------
(* Properties of send_emails, stated of SpecEmails *)

\* C10: send_emails never raises, and the send_email calls made so far are
\* one per recipient, in list order, for a prefix of the list that is the
\* whole list once send_emails has returned, whatever failed on the way.
C10_EveryRecipientAttemptedOnce ==
    /\ eerror = "" /\ epc # "raised"
    /\ Len(attempts) <= Len(email_list)
    /\ \A k \in 1..Len(attempts) : attempts[k].to = email_list[k]
    /\ epc = "sending" => Len(attempts) = eidx - 1
    /\ epc = "returned" => Len(attempts) = Len(email_list)

C10_Witness ==
    /\ epc = "returned" /\ Len(email_list) = 3
    /\ attempts[1].failure.exc = "OSError"
    /\ attempts[2].failure.exc = "SMTPException"
    /\ attempts[3].failure = NoFailure
    /\ attempts[3].to = email_list[3]


Connects == SelectSeq(smtp, LAMBDA c : c.cmd = "connect")
Sendmails == SelectSeq(smtp, LAMBDA c : c.cmd = "sendmail")
\* the number of the session the command at position p belongs to
SessionOf(p) == Cardinality({ q \in 1..p : smtp[q].cmd = "connect" })

\* C11 as stated: one send_emails call over a non-empty list opens exactly
\* one SMTP session, in which all the messages are sent.
C11_OneSessionPerCall ==
    (epc = "returned" /\ email_list # <<>>) => Len(Connects) = 1

\* C11 amended: one send_emails call opens one SMTP session per recipient:
\* every send_email call connects once, so a returned call over n recipients
\* has connected n times; a message is sent only after the connect, STARTTLS
\* and login of its own session succeeded, it is addressed to the recipient
\* of that session, and a session carries at most one message.
C11_OneSessionPerRecipient ==
    /\ Len(Connects) = Len(attempts)
    /\ epc = "returned" => Len(Connects) = Len(email_list)
    /\ \A p \in 1..Len(smtp) :
          smtp[p].cmd = "sendmail" =>
              /\ p > 3
              /\ smtp[p - 3].cmd = "connect" /\ smtp[p - 3].ok
              /\ smtp[p - 2].cmd = "starttls" /\ smtp[p - 2].ok
              /\ smtp[p - 1].cmd = "login" /\ smtp[p - 1].ok
              /\ smtp[p].to = email_list[SessionOf(p)]
    /\ Len(Sendmails) <= Len(Connects)

C11_Witness ==
    /\ epc = "returned" /\ Len(email_list) = 3
    /\ \A k \in 1..3 : attempts[k].failure = NoFailure
    /\ Len(Connects) = 3 /\ Len(Sendmails) = 3
    /\ Sendmails[3].to = email_list[3]

----------------------------------------------------------------------------
(* Properties of get_destination_code, stated of SpecLookup *)

\* the lookup was answered 2xx with at least one result whose first entry
\* carries an IATA code
CodeFound(r) ==
    /\ r.outcome = "ok"
    /\ r.body.type = "dict"
    /\ "data" \in r.body.keys
    /\ r.body.data # <<>>
    /\ "iataCode" \in r.body.data[1].keys

\* C12: get_destination_code never raises; it returns the IATA code of the
\* first result when the lookup is answered with one, and "N/A" when the
\* request fails, when there is no result, or when a field is missing.
C12_LookupNeverRaises ==
    resolved.called =>
        /\ resolved.exc = ""
        /\ IF CodeFound(lookup.resp)
           THEN resolved.value = lookup.resp.body.data[1].iataCode
           ELSE resolved.value = "N/A"

C12_Witness ==
    /\ resolved.called /\ lookup.resp.outcome = "ok"
    /\ lookup.resp.body.type = "dict" /\ Len(lookup.resp.body.data) = 2
    /\ "iataCode" \notin lookup.resp.body.data[1].keys
    /\ "iataCode" \in lookup.resp.body.data[2].keys
    /\ resolved.exc = "" /\ resolved.value = "N/A"

----------------------------------------------------------------------------
(* Properties of the message, stated of SpecNotifyPath *)

\* where the stop clause starts and ends in a message
ClauseStarts(m) == { k \in 1..Len(m) : m[k] = "\nO voo tem " }
ClauseEnds(m) == { k \in 1..Len(m) : m[k] = " escala(s)." }
Composed == message # <<>>

\* C13: the composed message has a stop clause exactly when the flight has
\* at least one stop; the clause comes once, closes the message, and the
\* number in it reads back as the flight's stop count.  With no stops the
\* message has no stop clause.
C13_StopClauseIffStops ==
    Composed =>
        IF flight.stops.v >= 1
        THEN \E k \in 1..Len(message) :
                /\ ClauseStarts(message) = {k}
                /\ ClauseEnds(message) = {Len(message)}
                /\ k + 1 < Len(message)
                /\ \A j \in (k + 1)..(Len(message) - 1) : message[j] \in DigitChars
                /\ DigitsValue(SubSeq(message, k + 1, Len(message) - 1))
                       = flight.stops.v
        ELSE ClauseStarts(message) = {} /\ ClauseEnds(message) = {}

C13_Witness ==
    /\ Composed
    /\ flight.type = "FlightData" /\ flight.stops = Int_(1)
    /\ ClauseStarts(message) # {}
    /\ pc = "crashed"

----------------------------------------------------------------------------
(* Properties of FlightData.from_amadeus_data, stated of SpecCheapest *)

OutboundSegments(offer) == offer.itineraries[1].segments

\* the quote q carries the stop count and the end points of the outbound
\* segments segs
DerivedFrom(q, segs) ==
    /\ q.stops = Int_(Len(segs) - 1)
    /\ q.stops.v >= 0
    /\ q.origin_airport = segs[1].departure.iataCode
    /\ q.destination_airport = segs[q.stops.v + 1].arrival.iataCode
    /\ q.destination_airport = segs[Len(segs)].arrival.iataCode

\* C14: the quote built from an offer whose outbound itinerary has N >= 1
\* segments has N - 1 stops, departs from the first segment's departure
\* airport and arrives at the arrival airport of segment number `stops`,
\* the last one; so for every offer of the list handed to
\* find_cheapest_flight, and so for the quote it returns.
C14_StopsAndEndPoints ==
    (result.called /\ HasOffers(data)) =>
        /\ \A i \in 1..Len(data.data) :
              Len(OutboundSegments(data.data[i])) >= 1 =>
                  DerivedFrom(from_amadeus_data(data.data[i]),
                              OutboundSegments(data.data[i]))
        /\ DerivedFrom(result.value,
                       OutboundSegments(data.data[FirstCheapest(data.data)]))

C14_Witness ==
    /\ result.called /\ HasOffers(data)
    /\ Len(OutboundSegments(data.data[FirstCheapest(data.data)])) = 2
    /\ result.value.stops = Int_(1)
    /\ result.value.origin_airport = "LHR"
    /\ result.value.destination_airport = "CDG"
    /\ OutboundSegments(data.data[FirstCheapest(data.data)])[1].arrival.iataCode # "CDG"

----------------------------------------------------------------------------
(* What the workflow writes to the "prices" table, stated of Spec *)

\* a search has come back with an offer below the row's lowestPrice
CheaperFareFound ==
    \E k \in 1..Len(evals) :
        /\ Available(QuoteOf(evals[k].raw))
        /\ QuoteOf(evals[k].raw).price.v < sheet_data[k].lowestPrice

\* C15: all a run changes in the remote "prices" table is the iataCode of
\* rows that an update named by id: the table keeps its rows, every row keeps
\* its id, city and lowestPrice (also once a cheaper fare has been found),
\* a row's code differs from the one the run started with only after a
\* successful PUT addressed to that row's id carrying the new code, and no
\* request other than those PUTs writes to the table.
C15_OnlyNamedIataCodeWritten ==
    /\ Len(remote) = Len(sheet)
    /\ \A i \in 1..Len(sheet) :
          /\ remote[i] = [sheet[i] EXCEPT !.iataCode = remote[i].iataCode]
          /\ remote[i].iataCode # sheet[i].iataCode =>
                \E k \in 1..Len(Puts) :
                    /\ Puts[k].ok
                    /\ Puts[k].id = sheet[i].id
                    /\ Puts[k].a = remote[i].iataCode
    /\ \A k \in 1..Len(calls) :
          calls[k].what = "prices" => calls[k].verb \in {"GET", "PUT"}
    /\ \A k \in 1..Len(Puts) :
          /\ Puts[k].what = "prices"
          /\ \E i \in 1..Len(sheet) : Puts[k].id = sheet[i].id

C15_Witness ==
    /\ Len(sheet) = 2 /\ Len(Puts) = 2 /\ Puts[2].ok
    /\ remote[1].iataCode # sheet[1].iataCode
    /\ remote[2].iataCode # remote[1].iataCode
    /\ CheaperFareFound
    /\ Ended
    /\ \A i \in 1..2 : remote[i].lowestPrice = sheet[i].lowestPrice

----------------------------------------------------------------------------
(* The "N/A" code of get_destination_code in the workflow, stated of Spec *)

\* C16: main() checks what get_destination_code returns for the "N/A"
\* sentinel: no update carries "N/A" as a row's IATA code, no row of the
\* remote table gets "N/A" as its code, and no flight search has "N/A" as
\* its destination code.
C16_SentinelNeverUsed ==
    /\ \A k \in 1..Len(Puts) : Puts[k].a # "N/A"
    /\ \A i \in 1..Len(remote) :
          remote[i].iataCode = "N/A" => sheet[i].iataCode = "N/A"
    /\ \A k \in 1..Len(Searches) : Searches[k].b # "N/A"

----------------------------------------------------------------------------
(* A "prices" table without rows, stated of Spec *)

\* get_destination_data has returned the rows of the table
Listed ==
    \E k \in 1..Len(calls) :
        calls[k].verb = "GET" /\ calls[k].what = "prices" /\ calls[k].ok

\* C17: once get_destination_data has returned an empty list, main() is at
\* the first-row check of line 31 or has left it with an uncaught IndexError;
\* it never ends normally, and no code lookup, update, flight search,
\* customer fetch or mail has been issued.
C17_EmptyListFailsAtFirstRowCheck ==
    (Listed /\ sheet = <<>>) =>
        /\ sheet_data = <<>>
        /\ pc = "check_first_row" \/ (pc = "crashed" /\ error = "IndexError")
        /\ pc # "done"
        /\ Lookups = <<>> /\ Puts = <<>> /\ Searches = <<>> /\ UserFetches = <<>>
        /\ evals = <<>> /\ message = <<>> /\ attempts = <<>> /\ smtp = <<>>
        /\ Len(calls) = 2

C17_Witness ==
    /\ Listed /\ sheet = <<>>
    /\ pc = "crashed" /\ error = "IndexError"
    /\ calls[Len(calls)].what = "prices"

====
